---- MODULE Spec2Model ----
(***************************************************************************)
(* Model of parse_pool_metrics.py: the table row parser, the section       *)
(* locator and main's validation / scan / projection flow.                 *)
(*                                                                         *)
(* Text.  A piece of text is modelled at the granularity the program's     *)
(* string operations observe: a sequence of words (maximal runs of         *)
(* non-whitespace) and the widths of the whitespace runs between them.     *)
(* A raw line also carries the width of its leading whitespace; its        *)
(* trailing newline is dropped by every strip() and is not represented.    *)
(* Text with no gap wider than 1 (a column token, a pool name, a           *)
(* timestamp) is therefore just its sequence of words.  Substring tests    *)
(* are made on whole words: the vocabulary below has no word that          *)
(* contains a marker as a proper substring.                                *)
(***************************************************************************)
EXTENDS Integers, Sequences, FiniteSets, TLC

VARIABLES
    pc,                \* position in main / in the function under study
    args,              \* argparse namespace: files, metrics, pools
    target_pools,      \* main: parsed --pools list
    selected_columns,  \* main: metric columns to output
    file_idx,          \* main: index into args.files of the for loop
    calls,             \* number of calls of find_pool_statistics_sections
    lines,             \* find_pool_statistics_sections: f.readlines()
    i,                 \* find_pool_statistics_sections: scan index (0-based)
    sections,          \* find_pool_statistics_sections: result list
    stderr,            \* diagnostics printed to sys.stderr
    all_sections,      \* main: sections of all files
    output_file,       \* "none" | "open" | "closed"
    csv_header,        \* header row written to the CSV
    csv_rows,          \* data rows written to the CSV
    all_pool_names,    \* main (pivot mode): set of matched pool names
    sec_idx,           \* main: index of the next section to write
    status,            \* main's return value, -1 while running
    line,              \* parse_pool_line: argument
    pool_info          \* parse_pool_line: result, <<>> for None, <<record>>

vars == <<pc, args, target_pools, selected_columns, file_idx, calls, lines, i,
          sections, stderr, all_sections, output_file, csv_header, csv_rows,
          all_pool_names, sec_idx, status, line, pool_info>>

-----------------------------------------------------------------------------
(* Bounds *)

MaxLines == 4
MaxWords == 11
MaxFiles == 2
MaxData == 2

(* Program constants *)

LookAhead == 10
MinColumns == 6
FullColumns == 10

-----------------------------------------------------------------------------
(* Text primitives *)

None == <<>>

Text(ws, gs) == [words |-> ws, gaps |-> gs]

RawLine(ld, ws, gs) == [lead |-> ld, words |-> ws, gaps |-> gs]

\* str.strip(): leading (and trailing) whitespace removed
Strip(l) == Text(l.words, l.gaps)

\* "not s" for a stripped line
IsBlank(t) == t.words = <<>>

\* "phrase in t": phrase is a sequence of words joined by single spaces
Contains(t, phrase) ==
    \E k \in 1..Len(t.words) :
        /\ k + Len(phrase) - 1 <= Len(t.words)
        /\ \A j \in 1..Len(phrase) :
              /\ t.words[k + j - 1] = phrase[j]
              /\ (j < Len(phrase) => t.gaps[k + j - 1] = 1)

DateWords == {"2025-10-03", "2025-10-04"}
TimeWords == {"10:08:32,368", "11:15:00,001"}
LevelWords == {"INFO", "WARN", "ERROR", "DEBUG"}

\* re.match(r'^\d{4}-\d{2}-\d{2}', s)
StartsWithDate(t) == ~IsBlank(t) /\ t.words[1] \in DateWords

\* re.match(r'^(INFO|WARN|ERROR|DEBUG)', s)
StartsWithLevel(t) == ~IsBlank(t) /\ t.words[1] \in LevelWords

\* the stop condition shared by the three scans
IsBoundary(t) == IsBlank(t) \/ StartsWithDate(t) \/ StartsWithLevel(t)

TimestampAt(t, k) ==
    /\ k < Len(t.words)
    /\ t.words[k] \in DateWords
    /\ t.gaps[k] = 1
    /\ t.words[k + 1] \in TimeWords

\* extract_timestamp: leftmost date-space-time match, or None
extract_timestamp(t) ==
    IF \E k \in 1..Len(t.words) : TimestampAt(t, k)
    THEN LET k == CHOOSE k \in 1..Len(t.words) :
                     /\ TimestampAt(t, k)
                     /\ \A m \in 1..(k - 1) : ~TimestampAt(t, m)
         IN  <<t.words[k], t.words[k + 1]>>
    ELSE None

-----------------------------------------------------------------------------
(* parse_pool_line *)

\* s.split(): the words
WhitespaceSplit(t) == t.words

RECURSIVE SplitFrom(_, _, _, _)
SplitFrom(t, k, cur, acc) ==
    IF k > Len(t.words)
    THEN Append(acc, cur)
    ELSE IF t.gaps[k - 1] >= 2
         THEN SplitFrom(t, k + 1, <<t.words[k]>>, Append(acc, cur))
         ELSE SplitFrom(t, k + 1, Append(cur, t.words[k]), acc)

\* faulty variant: splits on every whitespace run
WideGapSplit_SingleSpace(t) ==
    IF IsBlank(t) THEN << <<>> >>
    ELSE [k \in 1..Len(t.words) |-> <<t.words[k]>>]

\* re.split(r'\s{2,}', s) of a stripped string: the column tokens, each the
\* words between two wide gaps; [''] for the empty string
WideGapSplit(t) ==
    IF IsBlank(t) THEN << <<>> >>
    ELSE SplitFrom(t, 2, <<t.words[1]>>, <<>>)

Zero == <<"0">>

FullRecord(columns) ==
    [pool_name |-> columns[1], active |-> columns[2], pending |-> columns[3],
     backpressure |-> columns[4], delayed |-> columns[5], shared |-> columns[6],
     stolen |-> columns[7], completed |-> columns[8], blocked |-> columns[9],
     all_time_blocked |-> columns[10]]

ShortRecord(columns) ==
    [pool_name |-> columns[1], active |-> columns[2], pending |-> columns[3],
     backpressure |-> Zero, delayed |-> Zero, shared |-> Zero,
     stolen |-> Zero, completed |-> columns[4], blocked |-> columns[5],
     all_time_blocked |-> columns[6]]

\* parse_pool_line: <<>> for None, <<record>> for a record
parse_pool_line(l) ==
    LET t == Strip(l)
        parts == WhitespaceSplit(t)
        columns == WideGapSplit(t)
    IN  IF Len(parts) < MinColumns THEN None
        ELSE IF Len(columns) < MinColumns THEN None
        ELSE IF Len(columns) >= FullColumns THEN <<FullRecord(columns)>>
        ELSE <<ShortRecord(columns)>>

-----------------------------------------------------------------------------
(* find_pool_statistics_sections: the handling of one line *)

PoolName == <<"Pool", "Name">>
StatusLogger == <<"StatusLogger.java">>

\* lines[j].strip(), j counted from 0 as in the source
LineAt(ls, j) == Strip(ls[j + 1])

IsHeader(t) ==
    Contains(t, PoolName) /\ Contains(t, <<"Active">>) /\ Contains(t, <<"Pending">>)

\* the line before the header
PrevTimestamp(ls, h) ==
    IF h > 0 /\ Contains(LineAt(ls, h - 1), StatusLogger)
    THEN extract_timestamp(LineAt(ls, h - 1))
    ELSE None

\* faulty variant: does not stop at an empty line or a new log entry
RECURSIVE ForwardTimestamp_NoBreak(_, _, _)
ForwardTimestamp_NoBreak(ls, h, j) ==
    IF j < Len(ls) /\ j < h + LookAhead
    THEN LET check_line == LineAt(ls, j)
         IN  IF Contains(check_line, StatusLogger)
             THEN extract_timestamp(check_line)
             ELSE ForwardTimestamp_NoBreak(ls, h, j + 1)
    ELSE None

\* the while loop "j < len(lines) and j < i + 10", entered with j = h + 1
RECURSIVE ForwardTimestamp(_, _, _)
ForwardTimestamp(ls, h, j) ==
    IF j < Len(ls) /\ j < h + LookAhead
    THEN LET check_line == LineAt(ls, j)
         IN  IF Contains(check_line, StatusLogger)
             THEN extract_timestamp(check_line)
             ELSE IF IsBoundary(check_line)
                  THEN None
                  ELSE ForwardTimestamp(ls, h, j + 1)
    ELSE None

ResolveTimestamp(ls, h) ==
    LET before == PrevTimestamp(ls, h)
    IN  IF before # None THEN before ELSE ForwardTimestamp(ls, h, h + 1)

\* faulty variant: insert(0, ...) in place of append
RECURSIVE ForwardData_Prepending(_, _, _)
ForwardData_Prepending(ls, j, pool_data) ==
    IF j < Len(ls)
    THEN LET data_line == LineAt(ls, j)
             info == parse_pool_line(data_line)
         IN  IF IsBoundary(data_line) \/ info = None
             THEN pool_data
             ELSE ForwardData_Prepending(ls, j + 1, info \o pool_data)
    ELSE pool_data

\* the data after the header: the loop entered with j = h + 1
RECURSIVE ForwardData(_, _, _)
ForwardData(ls, j, pool_data) ==
    IF j < Len(ls)
    THEN LET data_line == LineAt(ls, j)
             info == parse_pool_line(data_line)
         IN  IF IsBoundary(data_line) \/ info = None
             THEN pool_data
             ELSE ForwardData(ls, j + 1, pool_data \o info)
    ELSE pool_data

\* faulty variant: append in place of insert(0, ...)
RECURSIVE BackwardData_Appending(_, _, _)
BackwardData_Appending(ls, j, pool_data) ==
    IF j >= 0
    THEN LET data_line == LineAt(ls, j)
             info == parse_pool_line(data_line)
         IN  IF IsBoundary(data_line) \/ info = None
             THEN pool_data
             ELSE BackwardData_Appending(ls, j - 1, pool_data \o info)
    ELSE pool_data

\* the data before the header: the loop entered with j = h - 1,
\* pool_data.insert(0, pool_info)
RECURSIVE BackwardData(_, _, _)
BackwardData(ls, j, pool_data) ==
    IF j >= 0
    THEN LET data_line == LineAt(ls, j)
             info == parse_pool_line(data_line)
         IN  IF IsBoundary(data_line) \/ info = None
             THEN pool_data
             ELSE BackwardData(ls, j - 1, info \o pool_data)
    ELSE pool_data

\* pool_data of the header at h once its timestamp is resolved
CollectData(ls, h) ==
    LET after == ForwardData(ls, h + 1, <<>>)
    IN  IF after = <<>> THEN BackwardData(ls, h - 1, <<>>) ELSE after

Diag(msg, at) == [msg |-> msg, at |-> at]

-----------------------------------------------------------------------------
(* Record filter and projection helpers of main *)

valid_columns ==
    <<"Active", "Pending", "Backpressure", "Delayed", "Shared", "Stolen",
      "Completed", "Blocked", "All_Time_Blocked">>

Range(s) == {s[k] : k \in DOMAIN s}

\* faulty variant: accepts every name
InvalidColumns_None(requested) == <<>>

\* [col for col in requested_columns if col not in valid_columns]
InvalidColumns(requested) ==
    SelectSeq(requested, LAMBDA col : col \notin Range(valid_columns))

\* pool[column_mapping[col]]
ColumnValue(pool, col) ==
    CASE col = "Active" -> pool.active
      [] col = "Pending" -> pool.pending
      [] col = "Backpressure" -> pool.backpressure
      [] col = "Delayed" -> pool.delayed
      [] col = "Shared" -> pool.shared
      [] col = "Stolen" -> pool.stolen
      [] col = "Completed" -> pool.completed
      [] col = "Blocked" -> pool.blocked
      [] col = "All_Time_Blocked" -> pool.all_time_blocked

\* col.lower() for the metric names
LowerColumn(col) ==
    CASE col = "Active" -> "active"
      [] col = "Pending" -> "pending"
      [] col = "Backpressure" -> "backpressure"
      [] col = "Delayed" -> "delayed"
      [] col = "Shared" -> "shared"
      [] col = "Stolen" -> "stolen"
      [] col = "Completed" -> "completed"
      [] col = "Blocked" -> "blocked"
      [] col = "All_Time_Blocked" -> "all_time_blocked"
      [] OTHER -> col

\* str.lower() on the words pool names are made of in this model
LowerWord(w) ==
    CASE w = "GossipStage" -> "gossipstage"
      [] w = "Native" -> "native"
      [] w = "Transport" -> "transport"
      [] w = "NATIVE" -> "native"
      [] w = "TRANSPORT" -> "transport"
      [] w = "ReadStage" -> "readstage"
      [] w = "Pool" -> "pool"
      [] w = "Name" -> "name"
      [] OTHER -> w

Lower(name) == [k \in DOMAIN name |-> LowerWord(name[k])]

\* filter_pools
FilterPools(pool_data, targets) ==
    IF targets = <<>> THEN pool_data
    ELSE LET target_pools_lower == {Lower(t) : t \in Range(targets)}
         IN  SelectSeq(pool_data,
                       LAMBDA pool : Lower(pool.pool_name) \in target_pools_lower)

\* the code points of the words pool names are made of in this model
CodePoints(w) ==
    CASE w = "GossipStage" -> <<71, 111, 115, 115, 105, 112, 83, 116, 97, 103, 101>>
      [] w = "Native" -> <<78, 97, 116, 105, 118, 101>>
      [] w = "Transport" -> <<84, 114, 97, 110, 115, 112, 111, 114, 116>>
      [] w = "Pool" -> <<80, 111, 111, 108>>
      [] w = "Name" -> <<78, 97, 109, 101>>

RECURSIVE NameCodePoints(_)
NameCodePoints(name) ==
    IF name = <<>> THEN <<>>
    ELSE IF Len(name) = 1 THEN CodePoints(name[1])
    ELSE CodePoints(name[1]) \o <<32>> \o NameCodePoints(Tail(name))

RECURSIVE SeqLess(_, _)
SeqLess(a, b) ==
    IF b = <<>> THEN FALSE
    ELSE IF a = <<>> THEN TRUE
    ELSE IF a[1] # b[1] THEN a[1] < b[1]
    ELSE SeqLess(Tail(a), Tail(b))

\* Python's str "<"
NameLess(a, b) == SeqLess(NameCodePoints(a), NameCodePoints(b))

\* faulty variant: sorted(..., reverse=True)
RECURSIVE Sorted_Descending(_)
Sorted_Descending(S) ==
    IF S = {} THEN <<>>
    ELSE LET hi == CHOOSE x \in S : \A y \in S \ {x} : NameLess(y, x)
         IN  <<hi>> \o Sorted_Descending(S \ {hi})

\* sorted(all_pool_names)
RECURSIVE Sorted(_)
Sorted(S) ==
    IF S = {} THEN <<>>
    ELSE LET lo == CHOOSE x \in S : \A y \in S \ {x} : NameLess(x, y)
         IN  <<lo>> \o Sorted(S \ {lo})

RECURSIVE Flatten(_)
Flatten(ss) == IF ss = <<>> THEN <<>> ELSE Head(ss) \o Flatten(Tail(ss))

NotAvailable == <<"N/A">>

\* one row-mode row: [timestamp, pool['pool_name']] + selected metric values
RowModeRow(timestamp, pool, cols) ==
    <<timestamp, pool.pool_name>> \o [k \in DOMAIN cols |-> ColumnValue(pool, cols[k])]

\* pool_dict = {pool['pool_name']: pool for pool in filtered_pools}: the last
\* record of each name wins
PoolDictLookup(filtered_pools, pool_name) ==
    LET ks == {k \in DOMAIN filtered_pools : filtered_pools[k].pool_name = pool_name}
    IN  filtered_pools[CHOOSE k \in ks : \A m \in ks : m <= k]

PivotCells(filtered_pools, pool_name, cols) ==
    IF \E k \in DOMAIN filtered_pools : filtered_pools[k].pool_name = pool_name
    THEN LET pool == PoolDictLookup(filtered_pools, pool_name)
         IN  [k \in DOMAIN cols |-> ColumnValue(pool, cols[k])]
    ELSE [k \in DOMAIN cols |-> NotAvailable]

\* one pivot-mode row
PivotRow(section, targets, names, cols) ==
    LET filtered_pools == FilterPools(section[2], targets)
        ordered == Sorted(names)
    IN  <<section[1]>> \o
        Flatten([n \in DOMAIN ordered |-> PivotCells(filtered_pools, ordered[n], cols)])

\* the matched names of all sections
MatchedNames(secs, targets) ==
    UNION {{pool.pool_name : pool \in Range(FilterPools(secs[k][2], targets))} :
           k \in DOMAIN secs}

-----------------------------------------------------------------------------
(* Input vocabulary *)

SLInfo ==
    RawLine(0, <<"INFO", "[Service]", "2025-10-03", "10:08:32,368", "StatusLogger.java">>,
            <<2, 1, 1, 2>>)
SLDate == RawLine(0, <<"2025-10-04", "11:15:00,001", "StatusLogger.java">>, <<1, 1>>)
SLBare == RawLine(0, <<"StatusLogger.java", "-">>, <<1>>)
Header ==
    RawLine(0, <<"Pool", "Name", "Active", "Pending", "Completed", "Blocked",
                 "All", "Time", "Blocked">>,
            <<1, 4, 3, 3, 3, 2, 1, 1>>)
DataG == RawLine(0, <<"GossipStage", "1", "2", "345", "6", "7">>, <<5, 5, 5, 5, 5>>)
DataT ==
    RawLine(2, <<"Native", "Transport", "3", "1", "4", "5", "8", "9", "987", "n/a", "7">>,
            <<1, 2, 2, 2, 2, 2, 2, 2, 2, 2>>)
EmptyLine == RawLine(0, <<>>, <<>>)
Junk == RawLine(4, <<"at", "Thread.run">>, <<1>>)

ScanVocab == {SLInfo, SLDate, SLBare, Header, DataG, DataT, EmptyLine, Junk}
DataVocab == {DataG, DataT}

SeqsUpTo(S, n) == UNION {[1..k -> S] : k \in 0..n}

File(ls) == [readable |-> TRUE, lines |-> ls]
Unreadable == [readable |-> FALSE, lines |-> <<>>]

\* a header whose StatusLogger line comes k lines after it
WindowFile(k) == <<Header>> \o [n \in 1..k |-> Junk] \o <<SLInfo, DataG>>

\* a complete section after a short prefix
TwoPartFile(prefix) == prefix \o <<SLDate, Header, DataT>>

ScanFiles ==
    {File(ls) : ls \in SeqsUpTo(ScanVocab, MaxLines)}
      \cup {File(WindowFile(k)) : k \in 0..LookAhead}
      \cup {File(TwoPartFile(prefix)) : prefix \in SeqsUpTo(ScanVocab, MaxLines - 2)}
      \cup {Unreadable}

\* the lines that decide whether a header is skipped: StatusLogger lines with
\* and without timestamp, a header, a data line, a boundary, a filler
SkipVocab == {SLInfo, SLBare, Header, DataG, EmptyLine, Junk}

SkipFiles ==
    {File(ls) : ls \in SeqsUpTo(SkipVocab, MaxLines)}
      \cup {File(TwoPartFile(prefix)) : prefix \in SeqsUpTo(SkipVocab, MaxLines - 2)}
      \cup {Unreadable}

\* files of main's runs: a timestamp line, a header and up to MaxData data lines
SampleFiles ==
    {File(<<SLInfo, Header>> \o d) : d \in SeqsUpTo(DataVocab, MaxData)} \cup {Unreadable}

MetricArgs == {<<>>, <<"Completed", "", "Active">>, <<"Active", "Foo">>}
PoolArgs ==
    {<<>>,
     << <<"gossipstage">>, <<>> >>,
     << <<"NATIVE", "TRANSPORT">>, <<"gossipstage">> >>,
     << <<"ReadStage">> >>}

WordPool == <<"CompactionExecutor", "w2", "w3", "w4", "w5", "w6", "w7", "w8", "w9",
              "w10", "w11", "w12", "w13", "w14">>
GapWidths == {1, 2}

ParseLines ==
    UNION {{RawLine(ld, SubSeq(WordPool, 1, n), gs) :
               ld \in {0, 2}, gs \in [1..(n - 1) -> GapWidths]} : n \in 0..MaxWords}

-----------------------------------------------------------------------------
(* State *)

Idle ==
    /\ target_pools = <<>>
    /\ selected_columns = valid_columns
    /\ calls = 0
    /\ lines = <<>>
    /\ i = 0
    /\ sections = <<>>
    /\ stderr = <<>>
    /\ all_sections = <<>>
    /\ output_file = "none"
    /\ csv_header = <<>>
    /\ csv_rows = <<>>
    /\ all_pool_names = {}
    /\ sec_idx = 0
    /\ status = -1
    /\ pool_info = None

NoArgs == [files |-> <<>>, metrics |-> <<>>, pools |-> <<>>]

\* main is entered with the parsed command line
Init ==
    /\ pc = "main"
    /\ args \in [files : UNION {[1..k -> SampleFiles] : k \in 1..MaxFiles},
                 metrics : MetricArgs, pools : PoolArgs]
    /\ line = EmptyLine
    /\ file_idx = 0
    /\ Idle

\* find_pool_statistics_sections is entered on one file
ScanInit ==
    /\ pc = "files"
    /\ args \in [files : {<<f>> : f \in ScanFiles}, metrics : {<<>>}, pools : {<<>>}]
    /\ line = EmptyLine
    /\ file_idx = 1
    /\ Idle

\* find_pool_statistics_sections is entered on one file of SkipFiles
SkipInit ==
    /\ pc = "files"
    /\ args \in [files : {<<f>> : f \in SkipFiles}, metrics : {<<>>}, pools : {<<>>}]
    /\ line = EmptyLine
    /\ file_idx = 1
    /\ Idle

\* parse_pool_line is entered on one line
ParseInit ==
    /\ pc = "parse"
    /\ args = NoArgs
    /\ line \in ParseLines
    /\ file_idx = 0
    /\ Idle

-----------------------------------------------------------------------------
(* Actions *)

ScanVars == <<lines, i, sections>>
OutVars == <<output_file, csv_header, csv_rows, all_pool_names, sec_idx>>
ParseVars == <<line, pool_info>>

\* main, argument handling: target pools, metric validation
Validate ==
    /\ pc = "main"
    /\ LET requested == SelectSeq(args.metrics, LAMBDA col : col # "")
           invalid == InvalidColumns(requested)
       IN  /\ target_pools' = SelectSeq(args.pools, LAMBDA pool : pool # <<>>)
           /\ IF args.metrics # <<>> /\ invalid # <<>>
              THEN /\ stderr' = stderr \o <<Diag("invalid_columns", 0),
                                             Diag("valid_columns_are", 0)>>
                   /\ status' = 1
                   /\ pc' = "exit"
                   /\ UNCHANGED <<selected_columns, file_idx>>
              ELSE /\ selected_columns' =
                         IF args.metrics # <<>> THEN requested ELSE valid_columns
                   /\ file_idx' = 1
                   /\ pc' = "files"
                   /\ UNCHANGED <<stderr, status>>
    /\ UNCHANGED <<args, calls, all_sections>>
    /\ UNCHANGED <<ScanVars, OutVars, ParseVars>>

\* main's for loop calls find_pool_statistics_sections, which reads the file
ReadFile ==
    /\ pc = "files"
    /\ file_idx <= Len(args.files)
    /\ calls' = calls + 1
    /\ IF args.files[file_idx].readable
       THEN /\ lines' = args.files[file_idx].lines
            /\ i' = 0
            /\ sections' = <<>>
            /\ pc' = "scan"
            /\ UNCHANGED <<stderr, file_idx>>
       ELSE /\ stderr' = Append(stderr, Diag("error_reading_file", file_idx))
            /\ file_idx' = file_idx + 1
            /\ pc' = "files"
            /\ UNCHANGED ScanVars
    /\ UNCHANGED <<args, target_pools, selected_columns, all_sections, status>>
    /\ UNCHANGED <<OutVars, ParseVars>>

\* one iteration of the while loop over the lines
ScanStep ==
    /\ pc = "scan"
    /\ i < Len(lines)
    /\ i' = i + 1
    /\ IF IsHeader(LineAt(lines, i))
       THEN LET timestamp == ResolveTimestamp(lines, i)
                pool_data == CollectData(lines, i)
            IN  IF timestamp = None
                THEN /\ stderr' = Append(stderr, Diag("no_timestamp", i + 1))
                     /\ sections' = sections
                ELSE /\ stderr' = stderr
                     /\ sections' = IF pool_data # <<>>
                                    THEN Append(sections, <<timestamp, pool_data>>)
                                    ELSE sections
       ELSE UNCHANGED <<stderr, sections>>
    /\ UNCHANGED <<pc, args, target_pools, selected_columns, file_idx, calls, lines,
                   all_sections, status>>
    /\ UNCHANGED <<OutVars, ParseVars>>

\* find_pool_statistics_sections returns; main extends all_sections
ScanReturn ==
    /\ pc = "scan"
    /\ i >= Len(lines)
    /\ all_sections' = all_sections \o sections
    /\ file_idx' = file_idx + 1
    /\ pc' = "files"
    /\ UNCHANGED <<args, target_pools, selected_columns, calls, stderr, status>>
    /\ UNCHANGED <<ScanVars, OutVars, ParseVars>>

\* after the for loop: "if not all_sections"
CheckSections ==
    /\ pc = "files"
    /\ file_idx > Len(args.files)
    /\ IF all_sections = <<>>
       THEN /\ stderr' = Append(stderr, Diag("no_pool_statistics", 0))
            /\ status' = 1
            /\ pc' = "exit"
       ELSE /\ pc' = "output"
            /\ UNCHANGED <<stderr, status>>
    /\ UNCHANGED <<args, target_pools, selected_columns, file_idx, calls, all_sections>>
    /\ UNCHANGED <<ScanVars, OutVars, ParseVars>>

\* open(..., 'w') and the csv writer; the file name, and the message naming
\* the default one, are not modelled
OpenOutput ==
    /\ pc = "output"
    /\ output_file' = "open"
    /\ pc' = IF target_pools = <<>> THEN "row_header" ELSE "pivot_names"
    /\ UNCHANGED <<args, target_pools, selected_columns, file_idx, calls, stderr,
                   all_sections, status, csv_header, csv_rows, all_pool_names, sec_idx>>
    /\ UNCHANGED <<ScanVars, ParseVars>>

\* row mode: the header row
WriteRowHeader ==
    /\ pc = "row_header"
    /\ csv_header' = <<"timestamp", "pool_name">> \o
                     [k \in DOMAIN selected_columns |-> LowerColumn(selected_columns[k])]
    /\ sec_idx' = 1
    /\ pc' = "row_rows"
    /\ UNCHANGED <<args, target_pools, selected_columns, file_idx, calls, stderr,
                   all_sections, status, output_file, csv_rows, all_pool_names>>
    /\ UNCHANGED <<ScanVars, ParseVars>>

\* row mode: the rows of one section
WriteSectionRows ==
    /\ pc = "row_rows"
    /\ sec_idx <= Len(all_sections)
    /\ LET section == all_sections[sec_idx]
       IN  csv_rows' = csv_rows \o
               [k \in DOMAIN section[2] |->
                   RowModeRow(section[1], section[2][k], selected_columns)]
    /\ sec_idx' = sec_idx + 1
    /\ UNCHANGED <<pc, args, target_pools, selected_columns, file_idx, calls, stderr,
                   all_sections, status, output_file, csv_header, all_pool_names>>
    /\ UNCHANGED <<ScanVars, ParseVars>>

\* pivot mode: the matched names, the failure when there is none, the header row
CollectPoolNames ==
    /\ pc = "pivot_names"
    /\ LET names == MatchedNames(all_sections, target_pools)
       IN  /\ all_pool_names' = names
           /\ IF names = {}
              THEN /\ stderr' = Append(stderr, Diag("no_matching_pools", 0))
                   /\ output_file' = "closed"
                   /\ status' = 1
                   /\ pc' = "exit"
                   /\ UNCHANGED <<csv_header, sec_idx>>
              ELSE /\ csv_header' = << <<"timestamp">> >> \o
                          Flatten([n \in DOMAIN Sorted(names) |->
                                     [k \in DOMAIN selected_columns |->
                                        Sorted(names)[n] \o <<"-", selected_columns[k]>>]])
                   /\ sec_idx' = 1
                   /\ pc' = "pivot_rows"
                   /\ UNCHANGED <<stderr, output_file, status>>
    /\ UNCHANGED <<args, target_pools, selected_columns, file_idx, calls, all_sections,
                   csv_rows>>
    /\ UNCHANGED <<ScanVars, ParseVars>>

\* pivot mode: the row of one section
WritePivotRow ==
    /\ pc = "pivot_rows"
    /\ sec_idx <= Len(all_sections)
    /\ csv_rows' = Append(csv_rows,
                          PivotRow(all_sections[sec_idx], target_pools, all_pool_names,
                                   selected_columns))
    /\ sec_idx' = sec_idx + 1
    /\ UNCHANGED <<pc, args, target_pools, selected_columns, file_idx, calls, stderr,
                   all_sections, status, output_file, csv_header, all_pool_names>>
    /\ UNCHANGED <<ScanVars, ParseVars>>

\* finally: output_file.close(); return 0
Finish ==
    /\ pc \in {"row_rows", "pivot_rows"}
    /\ sec_idx > Len(all_sections)
    /\ output_file' = "closed"
    /\ status' = 0
    /\ pc' = "exit"
    /\ UNCHANGED <<args, target_pools, selected_columns, file_idx, calls, stderr,
                   all_sections, csv_header, csv_rows, all_pool_names, sec_idx>>
    /\ UNCHANGED <<ScanVars, ParseVars>>

\* a call of parse_pool_line
ParseLine ==
    /\ pc = "parse"
    /\ pool_info' = parse_pool_line(line)
    /\ pc' = "parsed"
    /\ UNCHANGED <<args, target_pools, selected_columns, file_idx, calls, stderr,
                   all_sections, status, line>>
    /\ UNCHANGED <<ScanVars, OutVars>>

Next ==
    \/ Validate
    \/ ReadFile
    \/ ScanStep
    \/ ScanReturn
    \/ CheckSections
    \/ OpenOutput
    \/ WriteRowHeader
    \/ WriteSectionRows
    \/ CollectPoolNames
    \/ WritePivotRow
    \/ Finish

ScanNext == ReadFile \/ ScanStep \/ ScanReturn

ParseNext == ParseLine

Spec == Init /\ [][Next]_vars

ScanSpec == ScanInit /\ [][ScanNext]_vars

\* the scan is a sequential loop: its next step is always taken
ScanFairSpec == SkipInit /\ [][ScanNext]_vars /\ WF_vars(ScanNext)

ParseSpec == ParseInit /\ [][ParseNext]_vars

-----------------------------------------------------------------------------
(* Vocabulary of the properties, stated on the text itself *)

WideGaps(t) == {k \in DOMAIN t.gaps : t.gaps[k] >= 2}

\* number of wide-gap tokens; the empty text is one empty token
NumTokens(t) == IF t.words = <<>> THEN 1 ELSE Cardinality(WideGaps(t)) + 1

\* index of the last word of the n-th token
TokenEnd(t, n) ==
    IF n = NumTokens(t) THEN Len(t.words)
    ELSE CHOOSE k \in WideGaps(t) : Cardinality({m \in WideGaps(t) : m <= k}) = n

\* the n-th wide-gap token
TokenOf(t, n) ==
    SubSeq(t.words, IF n = 1 THEN 1 ELSE TokenEnd(t, n - 1) + 1, TokenEnd(t, n))

LongFormOf(t) ==
    [pool_name |-> TokenOf(t, 1), active |-> TokenOf(t, 2), pending |-> TokenOf(t, 3),
     backpressure |-> TokenOf(t, 4), delayed |-> TokenOf(t, 5),
     shared |-> TokenOf(t, 6), stolen |-> TokenOf(t, 7), completed |-> TokenOf(t, 8),
     blocked |-> TokenOf(t, 9), all_time_blocked |-> TokenOf(t, 10)]

ShortFormOf(t) ==
    [pool_name |-> TokenOf(t, 1), active |-> TokenOf(t, 2), pending |-> TokenOf(t, 3),
     backpressure |-> <<"0">>, delayed |-> <<"0">>, shared |-> <<"0">>,
     stolen |-> <<"0">>, completed |-> TokenOf(t, 4), blocked |-> TokenOf(t, 5),
     all_time_blocked |-> TokenOf(t, 6)]

RecordOf(t) == IF NumTokens(t) >= 10 THEN LongFormOf(t) ELSE ShortFormOf(t)

RecordKeys ==
    {"pool_name", "active", "pending", "backpressure", "delayed", "shared", "stolen",
     "completed", "blocked", "all_time_blocked"}

\* a valid data line: non-empty, not a new log entry or level marker, parseable
ValidData(t) == ~IsBoundary(t) /\ NumTokens(t) >= 6

HasStamp(t) == \E k \in 1..Len(t.words) : TimestampAt(t, k)

HeaderAt(ls, h) == h \in 0..(Len(ls) - 1) /\ IsHeader(LineAt(ls, h))

Headers(ls) == {h \in 0..(Len(ls) - 1) : IsHeader(LineAt(ls, h))}

\* the line before the header supplies a timestamp
StampBefore(ls, h) ==
    /\ h > 0
    /\ Contains(LineAt(ls, h - 1), StatusLogger)
    /\ HasStamp(LineAt(ls, h - 1))

\* the lines after the header, within w lines, that are the first StatusLogger
\* line, carry a timestamp and follow no boundary line
StampSources(ls, h, w) ==
    {j \in (h + 1)..(h + w) :
        /\ j < Len(ls)
        /\ Contains(LineAt(ls, j), StatusLogger)
        /\ HasStamp(LineAt(ls, j))
        /\ \A m \in (h + 1)..(j - 1) :
              /\ ~Contains(LineAt(ls, m), StatusLogger)
              /\ ~IsBoundary(LineAt(ls, m))}

\* the timestamp step yields a timestamp for the header at h, the forward
\* search reading w lines
Resolvable(ls, h, w) == StampBefore(ls, h) \/ StampSources(ls, h, w) # {}

StampOf(ls, h, w) ==
    IF StampBefore(ls, h)
    THEN extract_timestamp(LineAt(ls, h - 1))
    ELSE extract_timestamp(LineAt(ls, CHOOSE j \in StampSources(ls, h, w) : TRUE))

\* the window the loop condition "j < i + 10" gives
CodeWindow == LookAhead - 1

\* lines h+1 .. h+n are valid data lines and a boundary or the end follows
DataAfter(ls, h, n) ==
    /\ n >= 1
    /\ h + n < Len(ls)
    /\ \A k \in 1..n : ValidData(LineAt(ls, h + k))
    /\ (h + n + 1 = Len(ls) \/ IsBoundary(LineAt(ls, h + n + 1)))

\* lines h-n .. h-1 are valid data lines below a boundary or the start
DataBefore(ls, h, n) ==
    /\ n >= 1
    /\ h - n >= 0
    /\ \A k \in 1..n : ValidData(LineAt(ls, h - k))
    /\ (h - n = 0 \/ IsBoundary(LineAt(ls, h - n - 1)))

\* the forward data scan of the header at h collects nothing
NothingAfter(ls, h) == h + 1 >= Len(ls) \/ ~ValidData(LineAt(ls, h + 1))

RecordsOf(ls, from, n) == [k \in 1..n |-> RecordOf(LineAt(ls, from + k - 1))]

\* find_pool_statistics_sections has returned to main in a one-file run
ScanDone ==
    /\ pc = "files"
    /\ Len(args.files) = 1
    /\ file_idx = 2
    /\ args.files[1].readable

ScannedLines == args.files[1].lines

-----------------------------------------------------------------------------
(* C3 *)

\* C3: parse_pool_line is decided by the wide-gap token list of the line:
\* fewer than 6 tokens give no record, 10 or more give the long form from
\* tokens 0..9, 6 to 9 give the short form from tokens 0..5 with the four
\* middle metrics "0"; every record has the name and all nine metric fields.
C3_ParseByTokens ==
    pc = "parsed" =>
        LET t == Strip(line)
            n == NumTokens(t)
        IN  /\ n < 6 => pool_info = <<>>
            /\ n >= 10 => pool_info = <<LongFormOf(t)>>
            /\ (n >= 6 /\ n <= 9) => pool_info = <<ShortFormOf(t)>>
            /\ pool_info # <<>> => DOMAIN pool_info[1] = RecordKeys

\* a short-form parse of an indented line whose pool name holds a single space
C3_Witness ==
    /\ pc = "parsed"
    /\ line.lead = 2
    /\ NumTokens(Strip(line)) = 9
    /\ Len(line.words) = 11
    /\ pool_info # <<>>
    /\ Len(pool_info[1].pool_name) = 2
    /\ pool_info[1].stolen = <<"0">>

-----------------------------------------------------------------------------
(* C4, C5, C6: the section locator *)

\* C4: a file with exactly one header, whose timestamp is resolvable and which
\* is followed at once by N >= 1 valid data lines and then a boundary line or
\* the end of the file, yields exactly one section, holding the records of the
\* N lines in file order.
C4_HeaderThenData ==
    ScanDone =>
        \A h \in 0..(Len(ScannedLines) - 1) : \A n \in 1..Len(ScannedLines) :
            ( /\ Headers(ScannedLines) = {h}
              /\ Resolvable(ScannedLines, h, CodeWindow)
              /\ DataAfter(ScannedLines, h, n) )
            => all_sections = << <<StampOf(ScannedLines, h, CodeWindow),
                                   RecordsOf(ScannedLines, h + 1, n)>> >>

\* one header followed by two different data lines has been scanned
C4_Witness ==
    /\ ScanDone
    /\ \E h \in 0..(Len(ScannedLines) - 1) :
          /\ Headers(ScannedLines) = {h}
          /\ Resolvable(ScannedLines, h, CodeWindow)
          /\ DataAfter(ScannedLines, h, 2)
          /\ ScannedLines[h + 2] # ScannedLines[h + 3]
    /\ Len(all_sections) = 1
    /\ Len(all_sections[1][2]) = 2

\* C5: the step on a header with a resolvable timestamp, nothing collected
\* after it and N >= 1 valid data lines right before it (below a boundary line
\* or the start of the file) appends one section holding those N records in
\* top-to-bottom order; when the forward scan collects records, the section
\* holds exactly those and nothing from before the header.
C5_DataBeforeHeader ==
    [][ (pc = "scan" /\ HeaderAt(lines, i) /\ Resolvable(lines, i, CodeWindow)) =>
          /\ \A n \in 1..Len(lines) :
                (NothingAfter(lines, i) /\ DataBefore(lines, i, n)) =>
                    sections' = Append(sections,
                                       <<StampOf(lines, i, CodeWindow),
                                         RecordsOf(lines, i - n, n)>>)
          /\ \A n \in 1..Len(lines) :
                DataAfter(lines, i, n) =>
                    sections' = Append(sections,
                                       <<StampOf(lines, i, CodeWindow),
                                         RecordsOf(lines, i + 1, n)>>)
      ]_vars

\* the step just taken was on a header with two different data lines before it
\* and nothing after it
C5_Witness ==
    /\ pc = "scan"
    /\ i >= 3
    /\ HeaderAt(lines, i - 1)
    /\ Resolvable(lines, i - 1, CodeWindow)
    /\ NothingAfter(lines, i - 1)
    /\ DataBefore(lines, i - 1, 2)
    /\ lines[i - 2] # lines[i - 1]
    /\ sections # <<>>
    /\ Len(sections[Len(sections)][2]) = 2

\* the header at h has data next to it
HasData(ls, h) ==
    \/ (h + 1 < Len(ls) /\ ValidData(LineAt(ls, h + 1)))
    \/ (h >= 1 /\ ValidData(LineAt(ls, h - 1)))

Unresolved(ls) == {h \in Headers(ls) : ~Resolvable(ls, h, CodeWindow)}

\* C6: the step on a header with no timestamp from the line before it or from
\* the forward window appends no section, prints one diagnostic naming its
\* line and moves the index by one; by the end of the scan, which is always
\* reached, every such header has its diagnostic, in order, and every header
\* with a timestamp and data has its section.
C6_SkipUnresolvedHeader ==
    /\ [][ (pc = "scan" /\ HeaderAt(lines, i) /\ ~Resolvable(lines, i, CodeWindow)) =>
             /\ sections' = sections
             /\ stderr' = Append(stderr, Diag("no_timestamp", i + 1))
             /\ i' = i + 1
             /\ pc' = "scan" ]_vars
    /\ [](ScanDone =>
             /\ Len(stderr) = Cardinality(Unresolved(ScannedLines))
             /\ \A k \in DOMAIN stderr :
                   /\ stderr[k].msg = "no_timestamp"
                   /\ stderr[k].at - 1 \in Unresolved(ScannedLines)
                   /\ \A m \in 1..(k - 1) : stderr[m].at < stderr[k].at
             /\ Len(all_sections) =
                   Cardinality({h \in Headers(ScannedLines) :
                                   /\ Resolvable(ScannedLines, h, CodeWindow)
                                   /\ HasData(ScannedLines, h)}))
    /\ <>(pc = "files" /\ file_idx > Len(args.files))

\* a scan that skipped a header without timestamp and later emitted a section
C6_Witness ==
    /\ ScanDone
    /\ Len(stderr) = 1
    /\ stderr[1] = Diag("no_timestamp", 1)
    /\ Len(all_sections) = 1

-----------------------------------------------------------------------------
(* C8, C9, C10: what the locator does not guarantee *)

AllSectionsSoFar == all_sections \o sections

\* C8: in every emitted section no two records have the same pool_name.
C8_UniquePoolNames ==
    \A s \in DOMAIN AllSectionsSoFar :
        \A a, b \in DOMAIN AllSectionsSoFar[s][2] :
            AllSectionsSoFar[s][2][a].pool_name = AllSectionsSoFar[s][2][b].pool_name
                => a = b

\* C9: a header whose previous line supplies no timestamp and whose first
\* StatusLogger line lies at index i+1 .. i+10, carries a timestamp and follows
\* no boundary line, gets that timestamp: once the header has been handled no
\* missing-timestamp diagnostic names it, and a section emitted for it carries
\* that timestamp.
C9_TenLineWindow ==
    pc = "scan" =>
        \A h \in 0..(i - 1) :
            ( /\ HeaderAt(lines, h)
              /\ ~StampBefore(lines, h)
              /\ StampSources(lines, h, 10) # {} )
            => Diag("no_timestamp", h + 1) \notin Range(stderr)

\* the records the header lines of the scanned file parse to
HeaderRecords(ls) == {parse_pool_line(LineAt(ls, h))[1] :
                         h \in {k \in Headers(ls) : ValidData(LineAt(ls, k))}}

\* C10: no record of an emitted section was parsed from a header line.
C10_HeaderSuppliesNoData ==
    pc = "scan" =>
        \A s \in DOMAIN sections :
            \A k \in DOMAIN sections[s][2] :
                sections[s][2][k] \notin HeaderRecords(lines)

-----------------------------------------------------------------------------
(* C1, C2, C7: main *)

PivotMode == SelectSeq(args.pools, LAMBDA pool : pool # <<>>) # <<>>

\* the names of the collected records that match the filter, case ignored
CollectedNames ==
    UNION {{r.pool_name : r \in Range(all_sections[k][2])} : k \in DOMAIN all_sections}

Matching ==
    {nm \in CollectedNames :
        \E t \in Range(args.pools) : t # <<>> /\ Lower(t) = Lower(nm)}

\* C1: when main has ended in pivot mode and the filter matches no name of any
\* collected section, the status is non-zero and the output file was never
\* opened.
C1_NoOutputOnEmptyPivot ==
    (pc = "exit" /\ PivotMode /\ Matching = {}) =>
        (status # 0 /\ output_file = "none")

RequestsInvalidMetric ==
    \E k \in DOMAIN args.metrics :
        args.metrics[k] # "" /\ args.metrics[k] \notin Range(valid_columns)

\* C2: with an invalid metric name requested, main fails before any call of
\* find_pool_statistics_sections and before the output file is opened; in
\* every run no file is scanned before the metrics have been validated.
C2_ValidateBeforeScan ==
    /\ RequestsInvalidMetric =>
          /\ calls = 0
          /\ output_file = "none"
          /\ pc \in {"main", "exit"}
          /\ (pc = "exit" => status = 1)
    /\ calls > 0 =>
          /\ pc # "main"
          /\ Range(selected_columns) \subseteq Range(valid_columns)

\* main has failed on an invalid metric name
C2_Witness ==
    /\ pc = "exit"
    /\ RequestsInvalidMetric
    /\ status = 1
    /\ Len(stderr) = 2
    /\ calls = 0

\* position of a matched name in lexicographic order, from 0
RankOf(nm) == Cardinality({m \in Matching : NameLess(m, nm)})

\* C7: a successful pivot-mode run writes one row per section, in section
\* order; every row has 1 + names * metrics cells, starts with the section's
\* timestamp and holds, for each matched name in lexicographic order, the
\* selected metrics of that section's record of the name, or N/A in each cell
\* when the section has no such record.
C7_PivotRows ==
    (pc = "exit" /\ status = 0 /\ PivotMode) =>
        /\ Matching # {}
        /\ Len(csv_rows) = Len(all_sections)
        /\ \A k \in DOMAIN all_sections :
              LET row == csv_rows[k]
                  nmetrics == Len(selected_columns)
              IN  /\ Len(row) = 1 + Cardinality(Matching) * nmetrics
                  /\ row[1] = all_sections[k][1]
                  /\ \A nm \in Matching :
                        LET cell(c) == row[1 + RankOf(nm) * nmetrics + c]
                            recs == {r \in Range(all_sections[k][2]) : r.pool_name = nm}
                        IN  IF recs # {}
                            THEN \E r \in recs : \A c \in 1..nmetrics :
                                     cell(c) = ColumnValue(r, selected_columns[c])
                            ELSE \A c \in 1..nmetrics : cell(c) = <<"N/A">>

\* a pivot of two sections over two matched names, one section lacking a name
C7_Witness ==
    /\ pc = "exit"
    /\ status = 0
    /\ PivotMode
    /\ Cardinality(Matching) = 2
    /\ Len(selected_columns) = 2
    /\ Len(csv_rows) = 2
    /\ <<"N/A">> \in Range(csv_rows[2])
    /\ <<"N/A">> \notin Range(csv_rows[1])
    /\ Len(all_sections[1][2]) = 2
    /\ NameLess(all_sections[1][2][2].pool_name, all_sections[1][2][1].pool_name)

====
